---- MODULE Spec2Model ----
(***************************************************************************)
(* Model of ghrelease (src/src/cli.ts): a single-pass batch that fetches   *)
(* the latest release of each listed repository, mails a notification for  *)
(* a release it has not notified yet, and persists one state document.     *)
(*                                                                         *)
(* One behaviour is a sequence of invocations of the CLI.  The state       *)
(* document on disk carries over from one invocation to the next; the      *)
(* release source (upstream) is the environment and may change any time.   *)
(***************************************************************************)
EXTENDS Integers, Sequences, FiniteSets, TLC

\* ---------------------------------------------------------------- bounds
MaxRuns == 2        \* invocations of the CLI in one behaviour
MaxList == 2        \* longest repository list of one invocation
MaxVisits == 2      \* visits in one behaviour, over all its invocations
MaxPublish == 1     \* upstream changes in one behaviour
MaxRecordRuns == 2      \* invocations in a behaviour of SpecRecords
MaxRecordVisits == 2    \* visits in a behaviour of SpecRecords
MaxRecordPublish == 2   \* upstream changes in a behaviour of SpecRecords
MaxHistoryRuns == 3     \* invocations in a behaviour of SpecHistory
MaxHistoryVisits == 3   \* visits in a behaviour of SpecHistory
MaxHistoryPublish == 3  \* upstream changes in a behaviour of SpecHistory
MaxConfigRuns == 1      \* invocations in a behaviour of SpecConfig
MaxConfigPublish == 1   \* upstream changes in a behaviour of SpecConfig
MaxSteadyRuns == 3      \* invocations in a behaviour of SpecSteady
MaxSteadyVisits == 3    \* visits in a behaviour of SpecSteady
MaxSteadyPublish == 2   \* upstream changes in a behaviour of SpecSteady

\* ------------------------------------------------------------ value sets
RepoKeys == {"octo/demo", "acme/app"}
ReleaseIds == {10, 11}
TagNames == {"v1.0.0", "v1.1.0"}
Providers == {"resend", "smtp", "none"}

\* An optional value of the source (T | undefined): <<>> is undefined.
Absent == <<>>
Some(v) == <<v>>

\* An entity tag is an opaque string: the empty string is <<>>, and the tag
\* the release source gives to its version n is <<"W/", n>>.
EmptyString == <<>>
EntityTag(version) == <<"W/", version>>

\* JavaScript truthiness of an optional string (cli.ts:150).
Truthy(opt) == opt # Absent /\ opt # Some(EmptyString)

\* type Release (the fields the reconciliation reads).  The release source
\* fixes the publication time of a release when it creates it, so each id has
\* its own; the tag of a release can be edited.
PublishedAt(id) ==
    IF id = 10 THEN "2024-01-01T00:00:00Z" ELSE "2024-02-01T00:00:00Z"

Release ==
    {[id |-> i, tag_name |-> t, published_at |-> PublishedAt(i)] :
        i \in ReleaseIds, t \in TagNames}

NoRelease == [id |-> 0, tag_name |-> "", published_at |-> ""]

\* type RepoState; `state.repos[repo] ?? {}` yields the record with no field.
EmptyRepoState ==
    [etag |-> Absent, lastReleaseId |-> Absent, lastTag |-> Absent,
     lastPublishedAt |-> Absent, lastCheckedAt |-> Absent]

\* type StateFile.repos with no key.
EmptyRepos == [r \in {} |-> EmptyRepoState]

VARIABLES
    pc,         \* "idle": no invocation running, the last one (if any) ended
                \* normally; "loop": inside main's for loop; "aborted": no
                \* invocation running, the last one ended by exit(1) or by an
                \* uncaught error
    exit,       \* why the last invocation was aborted ("usage", "env",
                \* "config_file", "repo_id", "type_error", "write_error");
                \* "done" after a normal end; "none" while one runs and before
                \* the first
    input,      \* environment, --repo values and --config-file of the invocation
    runs,       \* invocations that got to readState so far
    repos,      \* main: repos (the parsed repository list of the invocation)
    idx,        \* position of the for loop in repos (1-based)
    dry,        \* main: dry
    force,      \* args.values.force
    state,      \* main: state.repos (in memory)
    reposKind,  \* what state.repos is: "object", "array", "primitive" or "none"
    writes,     \* calls of writeState by this invocation
    changed,    \* main: changed
    disk,       \* the state document on disk
    upstream,   \* per repository: what the release source currently publishes
    published,  \* upstream changes so far
    versions,   \* versions[n]: what the n-th upstream change published (history,
                \* kept by the behaviours of SpecSteady)
    stale,      \* TRUE from an upstream change until the visit that observes it
    clock,      \* wall clock read by new Date()
    log,        \* the status lines this invocation printed, one per visit
    last,       \* record of the most recent visit of this invocation (history)
    lastSent,   \* per repository: id and tag of the last mail delivered by a
                \* visit that ran to its end (history, kept by SpecHistory and
                \* SpecSteady)
    lastDone,   \* per repository: id and tag of the last notification step that
                \* completed, by a mail or by the dry-run report (history, kept
                \* by SpecHistory and SpecSteady)
    lastFailed  \* per repository: when the most recent of its visits that got
                \* a reply from the release source ended in a send error, the
                \* id and tag of the release and those stored before that
                \* visit (history, kept by SpecSteady)

vars == <<pc, exit, input, runs, repos, idx, dry, force, state, reposKind,
          writes, changed, disk, upstream, published, versions, stale, clock,
          log, last, lastSent, lastDone, lastFailed>>

\* ----------------------------------------------------------- State Store
\* The record of the repository as the state document had it when the
\* invocation started, whatever earlier visits of the run wrote.
Lookup_AsLoaded(st, repo) ==
    IF repo \in DOMAIN disk.repos THEN disk.repos[repo] ELSE EmptyRepoState

\* state.repos[repo] ?? {}  (cli.ts:312)
Lookup(st, repo) == IF repo \in DOMAIN st THEN st[repo] ELSE EmptyRepoState

\* The assignment replacing the collection by the one entry.
Put_OnlyThis(st, repo, value) == [r \in {repo} |-> value]

\* state.repos[repo] = value  (cli.ts:321, 329, 346, 374, 385)
Put(st, repo, value) ==
    [r \in (DOMAIN st) \cup {repo} |-> IF r = repo THEN value ELSE st[r]]

\* The state document on disk: "absent" (no file), "corrupt" (a file that
\* cannot be read or is not JSON), "malformed" (JSON whose `repos` is null or
\* missing, or that is itself null: {}, [], null, a number), "primitive"
\* (JSON whose `repos` is a number, a string or a boolean), "array" (JSON
\* whose `repos` is an array) or "doc" (a StateFile).  Before the first
\* invocation the file is whatever the operator left there.
InitialDocuments ==
    {[kind |-> k, repos |-> EmptyRepos] :
        k \in {"absent", "corrupt", "malformed", "primitive", "array"}}

\* readState starting every invocation from { repos: {} }.
ReadState_AlwaysEmpty(doc) == [kind |-> "object", repos |-> EmptyRepos]

\* readState (cli.ts:90-97): { repos: {} } when reading or parsing throws,
\* and otherwise whatever JSON.parse returned, cast to StateFile unchecked.
\* `kind` is what state.repos is in memory: "object", "array", "primitive",
\* or "none" when state.repos cannot be evaluated or is undefined; `repos`
\* holds its records by repository key (an array holds none at first).
ReadState(doc) ==
    IF doc.kind \in {"absent", "corrupt"}
      THEN [kind |-> "object", repos |-> EmptyRepos]
    ELSE IF doc.kind = "doc" THEN [kind |-> "object", repos |-> doc.repos]
    ELSE IF doc.kind = "malformed" THEN [kind |-> "none", repos |-> EmptyRepos]
    ELSE [kind |-> doc.kind, repos |-> EmptyRepos]

\* writeState (cli.ts:99-102) when writing works: JSON.stringify(state)
\* replaces the document.  Of an object every record is written; the records
\* assigned to an array are named properties, which JSON.stringify leaves
\* out, so the array is written as it was read; a value without an
\* assignable `repos` is written as it was read.
WriteState(kind, st) ==
    IF kind = "object" THEN [kind |-> "doc", repos |-> st]
    ELSE IF kind = "none" THEN [kind |-> "malformed", repos |-> EmptyRepos]
    ELSE [kind |-> kind, repos |-> EmptyRepos]

\* ------------------------------------------------------- Release Fetcher
\* A request that never carries the stored etag.
IfNoneMatch_Never(etag, forceFlag) == Absent

\* A request that carries the stored etag even with --force.
IfNoneMatch_IgnoresForce(etag, forceFlag) ==
    IF Truthy(etag) THEN etag ELSE Absent

\* The If-None-Match header of the request (cli.ts:150): the stored etag,
\* unless it is falsy or --force is given.
IfNoneMatch(etag, forceFlag) ==
    IF Truthy(etag) /\ ~forceFlag THEN etag ELSE Absent

\* The release source.  A repository publishes no release or one latest
\* release; every change of it gets a new version, and the entity tag of a
\* version is that version.  A reply is a failure status, 404 when nothing is
\* published, 304 when the request carries the entity tag of the current
\* version, and otherwise 200 with the release, with or without an etag header.
NoUpstream == [has |-> FALSE, release |-> NoRelease, version |-> 0]

ServerResponses(up, ifNoneMatch) ==
    {[status |-> 500, release |-> NoRelease, etag |-> Absent]} \cup
    (IF ~up.has
       THEN {[status |-> 404, release |-> NoRelease, etag |-> Absent]}
       ELSE IF ifNoneMatch = Some(EntityTag(up.version))
         THEN {[status |-> 304, release |-> NoRelease, etag |-> Absent]}
         ELSE {[status |-> 200, release |-> up.release, etag |-> e] :
                  e \in {Absent, Some(EntityTag(up.version))}})

\* resp.ok
RespOk(resp) == resp.status \in 200..299

\* fetchLatestRelease, from the reply on (cli.ts:154-167); "throw" is the
\* Error thrown at cli.ts:162.
FetchLatestRelease(resp) ==
    IF resp.status = 304
      THEN [status |-> "not_modified", release |-> NoRelease, etag |-> Absent]
    ELSE IF resp.status = 404
      THEN [status |-> "no_releases", release |-> NoRelease, etag |-> Absent]
    ELSE IF ~RespOk(resp)
      THEN [status |-> "throw", release |-> NoRelease, etag |-> Absent]
    ELSE [status |-> "ok", release |-> resp.release, etag |-> resp.etag]

\* -------------------------------------------------------------- Notifier
\* sendEmail returning quietly when no provider is configured.
SendEmail_SilentNoProvider(prov, transportOk) ==
    IF prov = "resend" THEN (IF transportOk THEN "sent" ELSE "throw")
    ELSE IF prov = "smtp" THEN (IF transportOk THEN "sent" ELSE "throw")
    ELSE "sent"

\* sendEmail: Resend when RESEND_API_KEY is set, else SMTP when SMTP_HOST is
\* set, else it throws; transportOk is whether the chosen transport accepts.
SendEmail(prov, transportOk) ==
    IF prov = "resend" THEN (IF transportOk THEN "sent" ELSE "throw")
    ELSE IF prov = "smtp" THEN (IF transportOk THEN "sent" ELSE "throw")
    ELSE "throw"

\* ------------------------------------------------------------ Reconciler
\* The checked record written without the stored validator.
Checked_DropsEtag(repoState, now) ==
    [repoState EXCEPT !.etag = Absent, !.lastCheckedAt = Some(now)]

\* { ...repoState, lastCheckedAt: new Date().toISOString() }
Checked(repoState, now) == [repoState EXCEPT !.lastCheckedAt = Some(now)]

\* IsNew comparing the id alone.
IsNew_IdOnly(repoState, release, forceFlag) ==
    \/ repoState.lastReleaseId # Some(release.id)
    \/ forceFlag

\* IsNew taking the first release seen for a repository as a baseline.
IsNew_SkipsFirst(repoState, release, forceFlag) ==
    \/ /\ repoState.lastReleaseId # Absent
       /\ \/ repoState.lastReleaseId # Some(release.id)
          \/ repoState.lastTag # Some(release.tag_name)
    \/ forceFlag

\* IsNew without the --force clause.
IsNew_IgnoresForce(repoState, release, forceFlag) ==
    \/ repoState.lastReleaseId # Some(release.id)
    \/ repoState.lastTag # Some(release.tag_name)

\* cli.ts:337-340
IsNew(repoState, release, forceFlag) ==
    \/ repoState.lastReleaseId # Some(release.id)
    \/ repoState.lastTag # Some(release.tag_name)
    \/ forceFlag

\* The already-tracked record written without the spread of repoState.
AlreadyTracked_ClearsTriple(repoState, etag, now) ==
    [EmptyRepoState EXCEPT
       !.etag = IF etag # Absent THEN etag ELSE repoState.etag,
       !.lastCheckedAt = Some(now)]

\* cli.ts:346-350
AlreadyTracked(repoState, etag, now) ==
    [repoState EXCEPT !.etag = IF etag # Absent THEN etag ELSE repoState.etag,
                      !.lastCheckedAt = Some(now)]

\* The new-release record written without the publication time.
Notified_NoPublishedAt(release, etag, now) ==
    [etag |-> etag,
     lastReleaseId |-> Some(release.id),
     lastTag |-> Some(release.tag_name),
     lastPublishedAt |-> Absent,
     lastCheckedAt |-> Some(now)]

\* cli.ts:374-380
Notified(release, etag, now) ==
    [etag |-> etag,
     lastReleaseId |-> Some(release.id),
     lastTag |-> Some(release.tag_name),
     lastPublishedAt |-> Some(release.published_at),
     lastCheckedAt |-> Some(now)]

\* The catch block writing a fresh record instead of spreading repoState.
Caught_ForgetsRecord(repoState, now) ==
    [newState |-> Checked(EmptyRepoState, now), outcome |-> "error",
     attempted |-> FALSE, delivered |-> FALSE, counted |-> 0]

\* The catch block counting the repository as changed.
Caught_Counted(repoState, now) ==
    [newState |-> Checked(repoState, now), outcome |-> "error",
     attempted |-> FALSE, delivered |-> FALSE, counted |-> 1]

\* The catch block (cli.ts:382-389).
Caught(repoState, now) ==
    [newState |-> Checked(repoState, now), outcome |-> "error",
     attempted |-> FALSE, delivered |-> FALSE, counted |-> 0]

\* The notification step leaving the record alone in a dry-run.
NotifyAndUpdate_DryKeepsRecord(repoState, result, sendResult, dryFlag, now) ==
    IF dryFlag
      THEN [newState |-> Checked(repoState, now),
            outcome |-> "would_notify",
            attempted |-> TRUE, delivered |-> FALSE, counted |-> 1]
    ELSE IF sendResult = "sent"
      THEN [newState |-> Notified(result.release, result.etag, now),
            outcome |-> "notified",
            attempted |-> TRUE, delivered |-> TRUE, counted |-> 1]
    ELSE [Caught(repoState, now) EXCEPT !.attempted = TRUE]

\* The validator of the reply stored although the send failed.
NotifyAndUpdate_FailureAdvancesEtag(repoState, result, sendResult, dryFlag, now) ==
    IF dryFlag
      THEN [newState |-> Notified(result.release, result.etag, now),
            outcome |-> "would_notify",
            attempted |-> TRUE, delivered |-> FALSE, counted |-> 1]
    ELSE IF sendResult = "sent"
      THEN [newState |-> Notified(result.release, result.etag, now),
            outcome |-> "notified",
            attempted |-> TRUE, delivered |-> TRUE, counted |-> 1]
    ELSE [Caught(repoState, now) EXCEPT
            !.attempted = TRUE,
            !.newState = [@ EXCEPT !.etag = result.etag]]

\* The release recorded as notified before the send is known to have worked.
NotifyAndUpdate_RecordsBeforeSend(repoState, result, sendResult, dryFlag, now) ==
    IF dryFlag
      THEN [newState |-> Notified(result.release, result.etag, now),
            outcome |-> "would_notify",
            attempted |-> TRUE, delivered |-> FALSE, counted |-> 1]
    ELSE IF sendResult = "sent"
      THEN [newState |-> Notified(result.release, result.etag, now),
            outcome |-> "notified",
            attempted |-> TRUE, delivered |-> TRUE, counted |-> 1]
    ELSE [Caught(repoState, now) EXCEPT
            !.attempted = TRUE,
            !.newState = Notified(result.release, result.etag, now)]

\* cli.ts:354-381: the notification step and the update after it.  sendResult
\* is what sendEmail would do; it is called only when dry is off.
NotifyAndUpdate(repoState, result, sendResult, dryFlag, now) ==
    IF dryFlag
      THEN [newState |-> Notified(result.release, result.etag, now),
            outcome |-> "would_notify",
            attempted |-> TRUE, delivered |-> FALSE, counted |-> 1]
    ELSE IF sendResult = "sent"
      THEN [newState |-> Notified(result.release, result.etag, now),
            outcome |-> "notified",
            attempted |-> TRUE, delivered |-> TRUE, counted |-> 1]
    ELSE [Caught(repoState, now) EXCEPT !.attempted = TRUE]

\* The body of the for loop for one repository (cli.ts:312-389): the new
\* record of the repository, the status line printed, whether a notification
\* was attempted (a send, or the dry-run line), whether a mail was delivered,
\* and the increment of `changed`.
VisitRepo(repoState, result, sendResult, dryFlag, forceFlag, now) ==
    IF result.status = "throw"
      THEN Caught(repoState, now)
    ELSE IF result.status = "not_modified"
      THEN [newState |-> Checked(repoState, now), outcome |-> "unchanged",
            attempted |-> FALSE, delivered |-> FALSE, counted |-> 0]
    ELSE IF result.status = "no_releases"
      THEN [newState |-> Checked(repoState, now), outcome |-> "no_releases",
            attempted |-> FALSE, delivered |-> FALSE, counted |-> 0]
    ELSE IF ~IsNew(repoState, result.release, forceFlag)
      THEN [newState |-> AlreadyTracked(repoState, result.etag, now),
            outcome |-> "already_tracked",
            attempted |-> FALSE, delivered |-> FALSE, counted |-> 0]
    ELSE NotifyAndUpdate(repoState, result, sendResult, dryFlag, now)

\* --------------------------------------------------------- Configuration
\* Repository identifiers as typed on the command line or in the config
\* file: the two well-formed ones, one without a slash, one with an empty
\* owner and one with an empty name.
RawIds == RepoKeys \cup {"octo", "/app", "acme/"}

\* input.split('/') (cli.ts:105), for the identifiers above.
Split(text) ==
    IF text = "octo/demo" THEN <<"octo", "demo">>
    ELSE IF text = "acme/app" THEN <<"acme", "app">>
    ELSE IF text = "octo" THEN <<"octo">>
    ELSE IF text = "/app" THEN <<"", "app">>
    ELSE IF text = "acme/" THEN <<"acme", "">>
    ELSE <<text>>

\* `${owner}/${repo}` (cli.ts:109).
Join(owner, repo) ==
    IF owner = "octo" /\ repo = "demo" THEN "octo/demo"
    ELSE IF owner = "acme" /\ repo = "app" THEN "acme/app"
    ELSE IF owner = "octo" /\ repo = "app" THEN "octo/app"
    ELSE "acme/demo"

\* parseRepo (cli.ts:104-110): the first two segments are taken, a missing
\* segment is undefined, and an undefined or empty segment throws.
ParseRepo(text) ==
    LET parts == Split(text)
        owner == IF Len(parts) >= 1 THEN parts[1] ELSE ""
        repo == IF Len(parts) >= 2 THEN parts[2] ELSE ""
    IN IF owner = "" \/ repo = ""
         THEN [ok |-> FALSE, key |-> ""]
         ELSE [ok |-> TRUE, key |-> Join(owner, repo)]

\* The environment, by which variables pass their guard in envSchema
\* (cli.ts:32-37).  MAIL_TO and MAIL_FROM pass when set to a non-empty
\* string.  The optional variables pass when unset; when set, GITHUB_TOKEN
\* passes unless it is empty or blank, RESEND_API_KEY and SMTP_HOST unless
\* empty, SMTP_PORT unless it does not read as a number.  (SMTP_SECURE,
\* SMTP_USER and SMTP_PASS pass with any value.)
Envs ==
    [mailTo : BOOLEAN, mailFrom : BOOLEAN, githubToken : BOOLEAN,
     resendApiKey : BOOLEAN, smtpHost : BOOLEAN, smtpPort : BOOLEAN]
GoodEnv ==
    [mailTo |-> TRUE, mailFrom |-> TRUE, githubToken |-> TRUE,
     resendApiKey |-> TRUE, smtpHost |-> TRUE, smtpPort |-> TRUE]

\* envSchema.safeParse with MAIL_FROM optional.
EnvOk_SenderOptional(env) ==
    /\ env.mailTo
    /\ env.githubToken /\ env.resendApiKey /\ env.smtpHost /\ env.smtpPort

\* env.success (cli.ts:290-291): every variable passes its guard.
EnvOk(env) ==
    /\ env.mailTo /\ env.mailFrom
    /\ env.githubToken /\ env.resendApiKey /\ env.smtpHost /\ env.smtpPort

\* The --config-file argument: not given, or a file that cannot be read,
\* is not JSON, is JSON whose `repos` is not an array, or holds a `repos`
\* array of strings.
NoFile == [kind |-> "none", repos |-> <<>>]
BadFiles ==
    {[kind |-> k, repos |-> <<>>] : k \in {"unreadable", "not_json", "no_array"}}
FileWith(list) == [kind |-> "ok", repos |-> list]

\* loadReposFromConfig (cli.ts:275-287): the array, or an Error.
LoadReposFromConfig(file) ==
    IF file.kind = "ok"
      THEN [ok |-> TRUE, repos |-> file.repos]
      ELSE [ok |-> FALSE, repos |-> <<>>]

\* The repository list with the config-file entries put first.
RepoList_ConfigFirst(cli, file) ==
    IF file.kind = "none" THEN cli ELSE LoadReposFromConfig(file).repos \o cli

\* repoList (cli.ts:298-302): the --repo values, then the entries of the
\* config file.
RepoList(cli, file) ==
    IF file.kind = "none" THEN cli ELSE cli \o LoadReposFromConfig(file).repos

\* repoList.map(parseRepo) for a list every entry of which parses
\* (cli.ts:304).
RECURSIVE ParseAll(_)
ParseAll(repoList) ==
    IF repoList = <<>>
      THEN <<>>
      ELSE <<ParseRepo(Head(repoList)).key>> \o ParseAll(Tail(repoList))

\* What happens between the start of the process and readState
\* (cli.ts:80-83, 289-304): the usage check, the environment check, the
\* config file, parseRepo over the whole list.  Either the process ends with
\* a non-zero status for the reason given, or the loop gets `repos`.
Prelude(in) ==
    IF Len(in.cli) = 0 /\ in.file.kind = "none"
      THEN [exit |-> "usage", repos |-> <<>>]
    ELSE IF ~EnvOk(in.env)
      THEN [exit |-> "env", repos |-> <<>>]
    ELSE IF in.file.kind # "none" /\ ~LoadReposFromConfig(in.file).ok
      THEN [exit |-> "config_file", repos |-> <<>>]
    ELSE LET repoList == RepoList(in.cli, in.file)
         IN IF \E i \in 1..Len(repoList) : ~ParseRepo(repoList[i]).ok
              THEN [exit |-> "repo_id", repos |-> <<>>]
              ELSE [exit |-> "none", repos |-> ParseAll(repoList)]

\* ---------------------------------------------------------------- Runner
RepoLists == UNION {[1..n -> RepoKeys] : n \in 1..MaxList}

\* Invocations given a complete environment and their repositories on the
\* command line.
CliInputs(lists) ==
    {[env |-> GoodEnv, cli |-> list, file |-> NoFile] : list \in lists}

NoInput == [env |-> GoodEnv, cli |-> <<>>, file |-> NoFile]

\* The for loop ending after its first iteration.
LoopDone_AfterFirst(i, list) == i > 1

\* The for-of loop is over when every entry has been taken (cli.ts:311).
LoopDone(i, list) == i > Len(list)

\* sendEmail called in a dry-run as well.
SendCalled_EvenWhenDry(attempted, dryFlag) == attempted

\* sendEmail is called for a release judged new unless the run is a dry-run
\* (cli.ts:358-364).
SendCalled(attempted, dryFlag) == attempted /\ ~dryFlag

\* The loop left at the first visit that ends in an error.
NextIndex_StopsOnError(i, outcome) ==
    IF outcome = "error" THEN i + MaxList ELSE i + 1

\* The for loop goes on to the next entry whatever the visit's outcome: the
\* try/catch is inside the loop body (cli.ts:311-313, 382-390).
NextIndex(i, outcome) == i + 1

NoVisit ==
    [run |-> 0, idx |-> 0, repo |-> "", pre |-> EmptyRepoState,
     up |-> NoUpstream, request |-> Absent,
     resp |-> [status |-> 0, release |-> NoRelease, etag |-> Absent],
     result |-> [status |-> "none", release |-> NoRelease, etag |-> Absent],
     outcome |-> "none", attempted |-> FALSE, delivered |-> FALSE,
     provider |-> "unused", transportOk |-> FALSE, changedBefore |-> 0,
     prevSent |-> Absent, prevDone |-> Absent, prevFailed |-> Absent,
     completed |-> FALSE]

InitFrom(documents) ==
    /\ pc = "idle"
    /\ exit = "none"
    /\ input = NoInput
    /\ runs = 0
    /\ repos = <<>>
    /\ idx = 0
    /\ dry = FALSE
    /\ force = FALSE
    /\ state = EmptyRepos
    /\ reposKind = "object"
    /\ writes = 0
    /\ changed = 0
    /\ disk \in documents
    /\ upstream = [r \in RepoKeys |-> NoUpstream]
    /\ published = 0
    /\ versions = <<>>
    /\ stale = FALSE
    /\ clock = 0
    /\ log = <<>>
    /\ last = NoVisit
    /\ lastSent = [r \in RepoKeys |-> Absent]
    /\ lastDone = [r \in RepoKeys |-> Absent]
    /\ lastFailed = [r \in RepoKeys |-> Absent]

Init == InitFrom(InitialDocuments)

\* The inputs of a set that Prelude accepts, each with the list it gives
\* the loop.
Accepted(inputs) ==
    {[input |-> in, repos |-> Prelude(in).repos] :
        in \in {i \in inputs : Prelude(i).exit = "none"}}

\* main up to the loop, for an invocation whose configuration is accepted
\* (cli.ts:80-83, 289-309): arguments and environment are read, the
\* repository list is built, the state document is loaded, changed = 0.
\* Which mail provider the environment configures is read by sendEmail when
\* it is called.  An invocation starts only if the visits left in the
\* behaviour cover its list, so every invocation that starts can run to its
\* end.
StartWith(accepted, forces, maxRuns, maxVisits) ==
    /\ pc \in {"idle", "aborted"}
    /\ runs < maxRuns
    /\ \E a \in accepted, d \in BOOLEAN, f \in forces :
         /\ clock + Len(a.repos) <= maxVisits
         /\ input' = a.input
         /\ repos' = a.repos
         /\ dry' = d
         /\ force' = f
    /\ state' = ReadState(disk).repos
    /\ reposKind' = ReadState(disk).kind
    /\ writes' = 0
    /\ changed' = 0
    /\ idx' = 1
    /\ runs' = runs + 1
    /\ pc' = "loop"
    /\ exit' = "none"
    /\ log' = <<>>
    /\ last' = NoVisit
    /\ UNCHANGED <<disk, upstream, published, versions, stale, clock, lastSent,
                   lastDone, lastFailed>>

CliAccepted == Accepted(CliInputs(RepoLists))

Start == StartWith(CliAccepted, BOOLEAN, MaxRuns, MaxVisits)

\* The reasons for which Prelude rejects some input of a set.
Rejections(inputs) == {Prelude(in).exit : in \in inputs} \ {"none"}

\* main for an invocation whose configuration is rejected (cli.ts:80-83,
\* 289-304): the process ends with a non-zero status before readState.  The
\* variables of main are those of a new process and none is assigned; of
\* the rejected configuration the reason is kept.
AbortWith(reasons) ==
    /\ pc \in {"idle", "aborted"}
    /\ \E reason \in reasons : exit' = reason
    /\ input' = NoInput
    /\ pc' = "aborted"
    /\ repos' = <<>>
    /\ idx' = 0
    /\ dry' = FALSE
    /\ force' = FALSE
    /\ state' = EmptyRepos
    /\ reposKind' = "object"
    /\ writes' = 0
    /\ changed' = 0
    /\ log' = <<>>
    /\ last' = NoVisit
    /\ UNCHANGED <<runs, disk, upstream, published, versions, stale, clock,
                   lastSent, lastDone, lastFailed>>

\* The first iteration of the loop when the loaded value is null or its
\* `repos` is null or missing: state.repos[repo] (cli.ts:312) is evaluated
\* outside the try and throws a TypeError nothing catches, so the process
\* ends there.
Crash ==
    /\ pc = "loop"
    /\ idx <= Len(repos)
    /\ reposKind = "none"
    /\ pc' = "aborted"
    /\ exit' = "type_error"
    /\ UNCHANGED <<input, runs, repos, idx, dry, force, state, reposKind,
                   writes, changed, disk, upstream, published, versions, stale,
                   clock, log, last, lastSent, lastDone, lastFailed>>

\* The mail environment that matters to a visit: which provider is configured
\* and whether its transport accepts the message, when sendEmail is called
\* (no transport is there to accept when none is configured); one irrelevant
\* value when sendEmail is not called.
SendCases(called) ==
    IF called
      THEN {c \in Providers \X BOOLEAN : c[1] = "none" => ~c[2]}
      ELSE {<<"unused", FALSE>>}

\* One iteration of the for loop (cli.ts:311-390) when state.repos takes
\* assignments.  `deliveries` and `failures` say whether the behaviour keeps
\* the histories lastSent and lastDone, and lastFailed.
VisitRecording(deliveries, failures) ==
    /\ pc = "loop"
    /\ idx <= Len(repos)
    /\ reposKind \in {"object", "array"}
    /\ LET repo == repos[idx]
           repoState == Lookup(state, repo)
           request == IfNoneMatch(repoState.etag, force)
           now == clock + 1
       IN \E resp \in ServerResponses(upstream[repo], request) :
            LET result == FetchLatestRelease(resp)
                called == SendCalled(VisitRepo(repoState, result, "throw",
                                               dry, force, now).attempted, dry)
            IN \E mail \in SendCases(called) :
                 LET v == VisitRepo(repoState, result,
                                    SendEmail(mail[1], mail[2]), dry, force, now)
                     done == Some(<<result.release.id, result.release.tag_name>>)
                 IN /\ state' = Put(state, repo, v.newState)
                    /\ changed' = changed + v.counted
                    /\ log' = Append(log, v.outcome)
                    /\ idx' = NextIndex(idx, v.outcome)
                    /\ last' = [run |-> runs, idx |-> idx, repo |-> repo,
                                pre |-> repoState, up |-> upstream[repo],
                                request |-> request, resp |-> resp,
                                result |-> result, outcome |-> v.outcome,
                                attempted |-> v.attempted,
                                delivered |-> v.delivered,
                                provider |-> mail[1], transportOk |-> mail[2],
                                changedBefore |-> changed,
                                prevSent |-> lastSent[repo],
                                prevDone |-> lastDone[repo],
                                prevFailed |-> lastFailed[repo],
                                completed |-> TRUE]
                    /\ lastSent' = IF deliveries /\ v.delivered
                                     THEN [lastSent EXCEPT ![repo] = done]
                                     ELSE lastSent
                    /\ lastDone' = IF deliveries /\ v.counted = 1
                                     THEN [lastDone EXCEPT ![repo] = done]
                                     ELSE lastDone
                    /\ lastFailed' =
                         IF ~failures THEN lastFailed
                         ELSE IF called /\ v.outcome = "error"
                           THEN [lastFailed EXCEPT ![repo] =
                                   Some([release |-> done[1],
                                         stored |-> <<repoState.lastReleaseId,
                                                      repoState.lastTag>>])]
                         ELSE IF result.status = "throw" THEN lastFailed
                         ELSE [lastFailed EXCEPT ![repo] = Absent]
                    /\ clock' = now
    /\ stale' = FALSE
    /\ UNCHANGED <<pc, exit, input, runs, repos, dry, force, reposKind, writes,
                   disk, upstream, published, versions>>

Visit == VisitRecording(FALSE, FALSE)

\* The first iteration of the loop when state.repos is a number, a string or
\* a boolean.  Reading a key of it gives undefined, so repoState is {}
\* (cli.ts:312) and the iteration runs as for a repository without a record:
\* the request, the status line, the mail.  The assignment to
\* state.repos[repo] that follows (cli.ts:321, 329, 374) throws a TypeError,
\* which the catch block reports; its own assignment (cli.ts:385) throws
\* again, outside any try, and the process ends there.  An iteration whose
\* fetch or send throws gets to the catch block directly.  The clock is read
\* on the right-hand side of each assignment before it throws.
VisitUnassignable ==
    /\ pc = "loop"
    /\ idx <= Len(repos)
    /\ reposKind = "primitive"
    /\ LET repo == repos[idx]
           repoState == EmptyRepoState
           request == IfNoneMatch(repoState.etag, force)
           now == clock + 1
       IN \E resp \in ServerResponses(upstream[repo], request) :
            LET result == FetchLatestRelease(resp)
                called == SendCalled(VisitRepo(repoState, result, "throw",
                                               dry, force, now).attempted, dry)
            IN \E mail \in SendCases(called) :
                 LET v == VisitRepo(repoState, result,
                                    SendEmail(mail[1], mail[2]), dry, force, now)
                 IN /\ log' = IF v.outcome = "error"
                                THEN Append(log, "error")
                                ELSE log \o <<v.outcome, "error">>
                    /\ clock' = IF v.outcome = "error" THEN now ELSE now + 1
                    /\ last' = [run |-> runs, idx |-> idx, repo |-> repo,
                                pre |-> repoState, up |-> upstream[repo],
                                request |-> request, resp |-> resp,
                                result |-> result, outcome |-> v.outcome,
                                attempted |-> v.attempted,
                                delivered |-> v.delivered,
                                provider |-> mail[1], transportOk |-> mail[2],
                                changedBefore |-> changed,
                                prevSent |-> lastSent[repo],
                                prevDone |-> lastDone[repo],
                                prevFailed |-> lastFailed[repo],
                                completed |-> FALSE]
    /\ pc' = "aborted"
    /\ exit' = "type_error"
    /\ stale' = FALSE
    /\ UNCHANGED <<input, runs, repos, idx, dry, force, state, reposKind,
                   writes, changed, disk, upstream, published, versions,
                   lastSent, lastDone, lastFailed>>

\* The ways writeState can go (cli.ts:99-102).  fs.writeFile opens the file
\* truncating it and then writes the text.  "written": the whole text is
\* written.  "refused": mkdir or the open throws (the path is a directory,
\* its parent is a file, permissions) and the file is untouched.  "cut": the
\* open works and a write throws (a full disk, a file size limit) before the
\* closing brace, leaving a file that is empty or a piece of the text, which
\* is not JSON.  "unterminated": the write throws with only the final
\* newline missing, leaving a file that parses as the new document.
WriteOutcomes == {"written", "refused", "cut", "unterminated"}

\* The file a write leaves when it throws before the closing brace.
CutDocument == [kind |-> "corrupt", repos |-> EmptyRepos]

\* The state file after writeState went the way `outcome`.
Written(outcome, old, kind, st) ==
    IF outcome = "refused" THEN old
    ELSE IF outcome = "cut" THEN CutDocument
    ELSE WriteState(kind, st)

\* After the loop (cli.ts:392-393): writeState is called once.  When the
\* whole write works the summary line is printed and the process ends
\* normally; when mkdir or writeFile throws no summary is printed and the
\* process ends with the uncaught error.  A loaded value without an
\* assignable `repos` gets here only when the list is empty.  `outcomes` are
\* the ways the write can go in the behaviour.
FinishWith(outcomes) ==
    /\ pc = "loop"
    /\ LoopDone(idx, repos)
    /\ writes' = writes + 1
    /\ \E outcome \in outcomes :
         /\ disk' = Written(outcome, disk, reposKind, state)
         /\ IF outcome = "written"
              THEN pc' = "idle" /\ exit' = "done"
              ELSE pc' = "aborted" /\ exit' = "write_error"
    /\ UNCHANGED <<input, runs, repos, idx, dry, force, state, reposKind,
                   changed, upstream, published, versions, stale, clock, log,
                   last, lastSent, lastDone, lastFailed>>

Finish == FinishWith(WriteOutcomes)

\* The environment: a repository publishes a release, edits its latest
\* release (the id, the tag, or text that is in neither) or withdraws it; each
\* change makes a new version for the entity tag.  The program observes the
\* release source of a repository only when it visits that repository, so
\* the changes since the previous visit are taken as one change right before
\* the visit that is the first to observe them.
UpstreamChanges(up, version) ==
    {[has |-> TRUE, release |-> rel, version |-> version] : rel \in Release}
    \cup {[has |-> FALSE, release |-> NoRelease, version |-> version] :
            x \in {y \in {1} : up.has}}

PublishUpTo(maxPublish) ==
    /\ published < maxPublish
    /\ ~stale
    /\ pc = "loop"
    /\ idx <= Len(repos)
    /\ \E up \in UpstreamChanges(upstream[repos[idx]], published + 1) :
         upstream' = [upstream EXCEPT ![repos[idx]] = up]
    /\ published' = published + 1
    /\ stale' = TRUE
    /\ UNCHANGED <<pc, exit, input, runs, repos, idx, dry, force, state,
                   reposKind, writes, changed, disk, versions, clock, log, last,
                   lastSent, lastDone, lastFailed>>

Publish == PublishUpTo(MaxPublish)

Next == Start \/ Visit \/ VisitUnassignable \/ Crash \/ Finish \/ Publish

Spec == Init /\ [][Next]_vars

\* A behaviour whose first invocation finds no state document.
InitAbsent == InitFrom({[kind |-> "absent", repos |-> EmptyRepos]})

FinishWritten == FinishWith({"written"})

\* The records of the collection under a changing release source: invocations
\* of any list, with or without --dry-run and --force, the first finding no
\* document and each of the others loading the document the one before wrote
\* (every write works), with more upstream changes than Spec has.
StartRecords == StartWith(CliAccepted, BOOLEAN, MaxRecordRuns, MaxRecordVisits)

PublishRecords == PublishUpTo(MaxRecordPublish)

NextRecords == StartRecords \/ Visit \/ FinishWritten \/ PublishRecords

SpecRecords == InitAbsent /\ [][NextRecords]_vars

\* The history of one repository: a longer sequence of invocations that never
\* pass --force and list only octo/demo, the first finding no document and
\* each of the others loading the document the one before wrote (every write
\* works).  These behaviours keep the histories of what was delivered.
HistoryLists == UNION {[1..n -> {"octo/demo"}] : n \in 1..MaxList}

HistoryAccepted == Accepted(CliInputs(HistoryLists))

StartHistory ==
    StartWith(HistoryAccepted, {FALSE}, MaxHistoryRuns, MaxHistoryVisits)

VisitHistory == VisitRecording(TRUE, FALSE)

PublishHistory == PublishUpTo(MaxHistoryPublish)

NextHistory == StartHistory \/ VisitHistory \/ FinishWritten \/ PublishHistory

SpecHistory == InitAbsent /\ [][NextHistory]_vars

\* The configuration of an invocation: any environment, --repo values and
\* config file, with at most MaxList entries in all.  The invocations of
\* SpecConfig never pass --force, the first finds no document and every
\* write works.
RawLists == UNION {[1..n -> RawIds] : n \in 0..MaxList}

ConfigInputs ==
    {in \in [env : Envs, cli : RawLists,
             file : {NoFile} \cup BadFiles \cup {FileWith(l) : l \in RawLists}] :
        Len(in.cli) + Len(in.file.repos) <= MaxList}

ConfigAccepted == Accepted(ConfigInputs)

ConfigRejections == Rejections(ConfigInputs)

StartConfig == StartWith(ConfigAccepted, {FALSE}, MaxConfigRuns, MaxVisits)

AbortConfig == AbortWith(ConfigRejections)

PublishConfig == PublishUpTo(MaxConfigPublish)

NextConfig ==
    StartConfig \/ AbortConfig \/ Visit \/ FinishWritten \/ PublishConfig

SpecConfig == InitAbsent /\ [][NextConfig]_vars

\* The history of one repository with --force and a release source that does
\* not change while an invocation runs: invocations that list only octo/demo,
\* with or without --force, the first finding no document and each of the
\* others loading the document the one before wrote (every write works); the
\* upstream changes happen before the first visit of an invocation.  These behaviours
\* keep all the histories: what was delivered, what every upstream change
\* published, and the release of the latest send error.
StartSteady ==
    StartWith(HistoryAccepted, BOOLEAN, MaxSteadyRuns, MaxSteadyVisits)

VisitSteady == VisitRecording(TRUE, TRUE)

PublishSteady ==
    /\ published < MaxSteadyPublish
    /\ ~stale
    /\ pc = "loop"
    /\ idx = 1
    /\ idx <= Len(repos)
    /\ \E up \in UpstreamChanges(upstream[repos[idx]], published + 1) :
         /\ upstream' = [upstream EXCEPT ![repos[idx]] = up]
         /\ versions' = Append(versions, [repo |-> repos[idx], up |-> up])
    /\ published' = published + 1
    /\ stale' = TRUE
    /\ UNCHANGED <<pc, exit, input, runs, repos, idx, dry, force, state,
                   reposKind, writes, changed, disk, clock, log, last, lastSent,
                   lastDone, lastFailed>>

NextSteady == StartSteady \/ VisitSteady \/ FinishWritten \/ PublishSteady

SpecSteady == InitAbsent /\ [][NextSteady]_vars

\* ================================================================ claims
\* Vocabulary.  `last` describes the most recent visit of the invocation, by
\* what went into it (the stored record, the reply of the release source, the
\* mail environment) and what came out; state[last.repo] is the record that
\* visit left.
JustVisited == last.outcome # "none" /\ last.completed
Post == state[last.repo]
Triple(rs) == <<rs.lastReleaseId, rs.lastTag, rs.lastPublishedAt>>
TripleOf(rel) == <<Some(rel.id), Some(rel.tag_name), Some(rel.published_at)>>
NoTriple == <<Absent, Absent, Absent>>
Found == last.result.status = "ok"
SameId == last.pre.lastReleaseId = Some(last.result.release.id)
SameTag == last.pre.lastTag = Some(last.result.release.tag_name)
JudgedNew == Found /\ (~SameId \/ ~SameTag \/ force)
SendSucceeded == last.provider \in {"resend", "smtp"} /\ last.transportOk
SendFailed == last.provider \in Providers /\ ~SendSucceeded
FetchFailed == ~(last.resp.status \in 200..299) /\ last.resp.status \notin {0, 304, 404}
\* Everything but the checked-timestamp is as before the visit, and the
\* checked-timestamp is the time of the visit.
OnlyChecked == Post = [last.pre EXCEPT !.lastCheckedAt = Some(clock)]

\* C1: when the fetch returns a release record, a notification is attempted
\* in that visit if and only if the record's id differs from the stored
\* last-notified id, or its tag differs from the stored last-notified tag, or
\* force is set.
C1_AttemptedIffNew ==
    (JustVisited /\ Found) =>
        (last.attempted <=> (~SameId \/ ~SameTag \/ force))

\* C1 witness: only the id changed (tag reused, no force) and the visit
\* attempted a notification.
C1_Witness ==
    /\ JustVisited /\ Found /\ ~force
    /\ last.pre.lastReleaseId # Absent /\ ~SameId /\ SameTag
    /\ last.attempted

\* C2: when a fetched release is judged new and the notification step
\* completes (the send succeeded, or the run is a dry-run), the repository's
\* record becomes exactly: id, tag and publication time of the fetched
\* release, the validator of this reply (absent if the reply had none) and
\* the time of the visit; the same record in a dry-run as in a real run.
C2_NotifiedRecord ==
    (JustVisited /\ JudgedNew /\ (dry \/ SendSucceeded)) =>
        Post = [etag |-> last.resp.etag,
                lastReleaseId |-> Some(last.resp.release.id),
                lastTag |-> Some(last.resp.release.tag_name),
                lastPublishedAt |-> Some(last.resp.release.published_at),
                lastCheckedAt |-> Some(clock)]

\* C2 witness: a dry-run visit of a repository that had a validator and a
\* notified release stored, a new release fetched, and a reply without a
\* validator.
C2_Witness ==
    /\ JustVisited /\ JudgedNew /\ dry
    /\ last.pre.etag # Absent /\ last.pre.lastReleaseId # Absent
    /\ last.resp.etag = Absent
    /\ Post.etag = Absent

\* C3: when the send fails for a release judged new (the provider or its
\* transport rejects, or no provider is configured), the last-notified id,
\* tag, publication time and the validator keep their pre-visit values, only
\* the checked-timestamp is updated, and `changed` is not incremented.
C3_SendErrorKeepsRecord ==
    (JustVisited /\ JudgedNew /\ ~dry /\ SendFailed) =>
        /\ OnlyChecked
        /\ changed = last.changedBefore
        /\ ~last.delivered

\* C3 witness: no provider is configured, and the repository had another
\* release and a validator stored before the visit.
C3_Witness ==
    /\ JustVisited /\ JudgedNew /\ ~dry
    /\ last.provider = "none"
    /\ last.pre.lastReleaseId # Absent /\ last.pre.etag # Absent
    /\ last.resp.etag # Absent

\* C4: when the fetch fails (a reply that is neither a success, nor not
\* modified, nor resource absent), the loop goes on to the next entry, no
\* notification is attempted and only the checked-timestamp of the
\* repository is updated.
C4_FetchErrorKeepsRecord ==
    (JustVisited /\ FetchFailed) =>
        /\ ~last.attempted
        /\ OnlyChecked
        /\ changed = last.changedBefore
        /\ idx = last.idx + 1

\* C4 witness: a fetch fails for a repository that had a validator and a
\* notified release stored.
C4_Witness ==
    /\ JustVisited /\ FetchFailed
    /\ last.pre.etag # Absent /\ last.pre.lastReleaseId # Absent

\* C6: when the reply carries no release record (not modified, or resource
\* absent), no notification is attempted and only the checked-timestamp of
\* the repository changes.
C6_NoRecordOnlyChecked ==
    (JustVisited /\ last.resp.status \in {304, 404}) =>
        /\ ~last.attempted
        /\ OnlyChecked
        /\ changed = last.changedBefore

\* C6 witness: the source answers resource absent for a repository whose
\* record holds a validator and a notified release.
C6_Witness ==
    /\ JustVisited /\ last.resp.status = 404
    /\ last.pre.etag # Absent /\ last.pre.lastReleaseId # Absent

\* C7: when the fetched release is not new (id and tag equal the stored
\* ones, force off), no notification is attempted, the last-notified id, tag
\* and publication time are unchanged, the checked-timestamp is the time of
\* the visit and the validator is the reply's, or the stored one when the
\* reply has none.
C7_AlreadyTrackedFrame ==
    (JustVisited /\ Found /\ SameId /\ SameTag /\ ~force) =>
        /\ ~last.attempted
        /\ changed = last.changedBefore
        /\ Post = [last.pre EXCEPT
                     !.etag = IF last.resp.etag # Absent
                                THEN last.resp.etag ELSE last.pre.etag,
                     !.lastCheckedAt = Some(clock)]

\* C7 witness: the same release is fetched again, the reply has no
\* validator, and a validator was stored.
C7_Witness ==
    /\ JustVisited /\ Found /\ SameId /\ SameTag /\ ~force
    /\ last.resp.etag = Absent /\ last.pre.etag # Absent

\* C5: error isolation across the batch.  (a) When an invocation ends, it
\* has printed one status line per entry of its list, whatever visits
\* failed, and the document it wrote from a keyed collection holds, for every
\* listed repository, the checked-timestamp of the last visit of that
\* repository.  (b) A visit, failing or not, changes no record but the
\* visited repository's, so what a repository's visit reads and writes is
\* what it would have been had no other repository failed.  (What becomes of
\* a document whose `repos` is no keyed collection is C15's; an invocation
\* whose write fails persists nothing: C14.)
LastIndexOf(list, r) ==
    CHOOSE i \in 1..Len(list) :
        list[i] = r /\ \A j \in (i + 1)..Len(list) : list[j] # r

C5_EveryRepoVisited ==
    (pc = "idle" /\ runs > 0) =>
        /\ Len(log) = Len(repos)
        /\ reposKind = "object" =>
             \A i \in 1..Len(repos) :
                 /\ repos[i] \in DOMAIN disk.repos
                 /\ disk.repos[repos[i]].lastCheckedAt =
                      Some(clock - Len(repos) + LastIndexOf(repos, repos[i]))

C5_VisitTouchesOwnRecord ==
    (pc = "loop" /\ pc' = "loop" /\ log' # log) =>
        \A r \in RepoKeys \ {repos[idx]} :
            /\ (r \in DOMAIN state') <=> (r \in DOMAIN state)
            /\ Lookup(state', r) = Lookup(state, r)

C5_ErrorIsolation ==
    /\ []C5_EveryRepoVisited
    /\ [][C5_VisitTouchesOwnRecord]_vars

\* C5 witness: an invocation over two different repositories has ended; the
\* first visit failed, the second notified, and both records are written.
C5_Witness ==
    /\ pc = "idle"
    /\ Len(repos) = 2 /\ repos[1] # repos[2]
    /\ log = <<"error", "notified">>
    /\ disk.kind = "doc"
    /\ disk.repos[repos[1]].lastCheckedAt = Some(clock - 1)
    /\ disk.repos[repos[2]].lastReleaseId # Absent

\* C8: in every reachable state each record's last-notified id, tag and
\* publication time are all absent or are those of one release record; an
\* invocation starts from the records of the document, and a step of its
\* loop changes the three values for a repository only in a visit of that
\* repository whose fetch returned a release, to the three values of that
\* release.
C8_TripleOfOneRelease ==
    \A st \in {state, disk.repos} : \A r \in DOMAIN st :
        \/ Triple(st[r]) = NoTriple
        \/ \E rel \in Release : Triple(st[r]) = TripleOf(rel)

C8_TripleChangesTogether ==
    /\ (pc # "loop" /\ pc' = "loop") => state' = disk.repos
    /\ pc = "loop" =>
         \A r \in RepoKeys :
             Triple(Lookup(state', r)) # Triple(Lookup(state, r)) =>
                 /\ last'.repo = r
                 /\ last'.result.status = "ok"
                 /\ Triple(Lookup(state', r)) = TripleOf(last'.result.release)

C8_TripleAtomic ==
    /\ []C8_TripleOfOneRelease
    /\ [][C8_TripleChangesTogether]_vars

\* C8 witness: a visit replaced the three values of one release by those of
\* another release.
C8_Witness ==
    /\ JustVisited
    /\ Triple(last.pre) # NoTriple
    /\ Triple(Post) # Triple(last.pre)
    /\ Post.lastReleaseId # last.pre.lastReleaseId
    /\ Post.lastTag # last.pre.lastTag

\* C9 as stated: without --force, two consecutive mails sent for the same
\* repository never carry the same release id and tag (a mail is never for
\* the release of the mail before it).
ThisRelease ==
    Some(<<last.result.release.id, last.result.release.tag_name>>)

C9_NoRepeatedMail ==
    (JustVisited /\ last.delivered) => ThisRelease # last.prevSent

\* C9 as amended: without --force, a visit that observes the id and tag of
\* the repository's last completed notification step (a mail sent, or the
\* dry-run report recorded in its place) attempts no notification; so two
\* consecutive completed notification steps for a repository never carry the
\* same release id and tag.
C9_NoRepeatedNotification ==
    (JustVisited /\ Found /\ ThisRelease = last.prevDone) => ~last.attempted

\* C9 witness: in a later invocation the fetch returns the release whose
\* mail was the last one sent, and nothing is attempted.
C9_Witness ==
    /\ JustVisited /\ Found
    /\ last.run >= 2 /\ last.idx = 1
    /\ ThisRelease = last.prevDone /\ last.prevSent = last.prevDone
    /\ ~last.attempted

\* C10: a visit without --force of a repository whose stored validator is
\* the one the release source gave for its current version (an earlier fetch
\* received it and the upstream has not changed since) sends that validator;
\* the source, unless it fails, answers not modified and the visit ends as
\* unchanged; in either case no notification is attempted, `changed` is not
\* incremented and the last-notified fields stay as they were.
C10_SecondRunUnchanged ==
    (/\ JustVisited /\ ~force
     /\ last.up.has
     /\ last.pre.etag = Some(EntityTag(last.up.version))) =>
        /\ last.request = last.pre.etag
        /\ last.resp.status \in {304, 500}
        /\ last.resp.status = 304 => last.outcome = "unchanged"
        /\ ~last.attempted
        /\ changed = last.changedBefore
        /\ Triple(Post) = Triple(last.pre)

\* C10 witness: the first visit of a second invocation finds the validator
\* and the release the first invocation stored, and ends as unchanged.
C10_Witness ==
    /\ JustVisited /\ ~force
    /\ last.run = 2 /\ last.idx = 1
    /\ last.up.has
    /\ last.pre.etag = Some(EntityTag(last.up.version))
    /\ Triple(last.pre) = TripleOf(last.up.release)
    /\ last.outcome = "unchanged"
    /\ Post.lastCheckedAt = Some(clock)

\* C11: with --force, a visit whose fetch returns a release runs the
\* notification step whatever the stored id and tag are: sendEmail is called
\* (in a dry-run the would-notify line takes its place), and when the send
\* succeeds the visit ends as notified and is counted.
C11_ForceNotifiesAgain ==
    (JustVisited /\ Found /\ force) =>
        /\ last.attempted
        /\ dry => (last.outcome = "would_notify" /\ last.provider = "unused")
        /\ ~dry => last.provider \in Providers
        /\ (~dry /\ SendSucceeded) =>
             (last.outcome = "notified" /\ last.delivered)
        /\ (dry \/ SendSucceeded) => changed = last.changedBefore + 1

\* C11 witness: a forced visit fetches the release whose mail was the last
\* one delivered for the repository, id and tag as stored, and a second mail
\* for it is delivered.
C11_Witness ==
    /\ JustVisited /\ Found /\ force /\ ~dry
    /\ SameId /\ SameTag
    /\ last.prevSent = ThisRelease
    /\ last.delivered
    /\ last.outcome = "notified"

\* C12: the request of a visit carries the stored validator as its
\* If-None-Match precondition exactly when a validator is stored and --force
\* is not given; with --force no validator is sent, the reply is never not
\* modified and the visit never ends as unchanged.
C12_ValidatorUnlessForced ==
    JustVisited =>
        /\ last.request =
             (IF last.pre.etag # Absent /\ ~force THEN last.pre.etag ELSE Absent)
        /\ force =>
             /\ last.request = Absent
             /\ last.resp.status # 304
             /\ last.outcome # "unchanged"

\* C12 witness: a forced visit of a repository whose stored validator is the
\* entity tag of the version the source publishes; nothing is sent as
\* precondition and the reply carries the release.
C12_Witness ==
    /\ JustVisited /\ force
    /\ last.up.has
    /\ last.pre.etag = Some(EntityTag(last.up.version))
    /\ last.request = Absent
    /\ last.resp.status = 200

\* C13: in a dry-run no visit calls sendEmail and no mail is delivered,
\* whatever the reply, the stored record and --force are; the record the
\* visit writes, whether a notification was attempted and the count are those
\* of a real run whose send succeeds, and the status line differs only in
\* reading would-notify for notified.
RealRun == VisitRepo(last.pre, last.result, "sent", FALSE, force, clock)

C13_DryRunNeverSends ==
    (JustVisited /\ dry) =>
        /\ last.provider = "unused"
        /\ ~last.delivered
        /\ Post = RealRun.newState
        /\ last.attempted = RealRun.attempted
        /\ changed = last.changedBefore + RealRun.counted
        /\ last.outcome = (IF RealRun.outcome = "notified"
                             THEN "would_notify" ELSE RealRun.outcome)

\* C13 witness: a forced dry-run visit fetches the release already stored
\* for the repository and reports it without a mail.
C13_Witness ==
    /\ JustVisited /\ dry /\ force
    /\ Found /\ SameId /\ SameTag
    /\ last.outcome = "would_notify"
    /\ last.provider = "unused"
    /\ Triple(Post) = TripleOf(last.result.release)

\* C14: an invocation writes the state document exactly once, after the
\* last entry of its list has been visited.  While the loop runs writeState
\* has not been called; an invocation that has ended normally has called it
\* once and the document is what it wrote of the in-memory collection; an
\* invocation ended by a failing write has called it once, after the whole
\* list, and left the file untouched, cut short (no document any more) or
\* holding the new document; and the document changes only in the step that
\* ends the invocation, with one status line printed per entry.  (An
\* invocation ended by a TypeError of the loop never calls writeState: C15.)
C14_NoWriteInLoop == pc = "loop" => writes = 0

C14_OneWriteAtEnd ==
    /\ (pc = "idle" /\ runs > 0) =>
          /\ writes = 1
          /\ Len(log) = Len(repos)
          /\ disk = WriteState(reposKind, state)
          /\ reposKind = "object" => (disk.kind = "doc" /\ disk.repos = state)
    /\ exit = "write_error" =>
          /\ writes = 1
          /\ Len(log) = Len(repos)
    /\ exit = "type_error" => writes = 0

C14_WriteEndsTheRun ==
    (disk' # disk \/ writes' > writes) =>
        /\ pc = "loop" /\ pc' \in {"idle", "aborted"}
        /\ idx = Len(repos) + 1
        /\ Len(log) = Len(repos)
        /\ writes' = 1
        /\ pc' = "idle" => disk' = WriteState(reposKind, state)
        /\ pc' = "aborted" =>
             /\ exit' = "write_error"
             /\ disk' \in {disk, CutDocument, WriteState(reposKind, state)}
        /\ state' = state

C14_PersistedOnce ==
    /\ []C14_NoWriteInLoop
    /\ []C14_OneWriteAtEnd
    /\ [][C14_WriteEndsTheRun]_vars

\* C14 witness: an invocation over two repositories has ended; the document
\* was written once and holds the records of both visits.
C14_Witness ==
    /\ pc = "idle" /\ writes = 1
    /\ Len(repos) = 2 /\ repos[1] # repos[2]
    /\ disk.kind = "doc"
    /\ disk.repos[repos[1]].lastCheckedAt = Some(clock - 1)
    /\ disk.repos[repos[2]].lastCheckedAt = Some(clock)

\* C15: loading the state document never aborts the run: whether the
\* document is absent, unreadable, not JSON, or JSON that is not a state
\* document, the invocation enters the loop with an empty collection and is
\* not ended by an error of the load.
C15_LoadNeverAborts ==
    /\ (pc = "loop" /\ idx = 1 /\ disk.kind # "doc") =>
          (reposKind = "object" /\ state = EmptyRepos)
    /\ exit # "type_error"

\* C15, the failing case reached: the document parses but holds no `repos`
\* object, and the invocation is ended by the TypeError of its first
\* iteration, with no repository visited and the document left as it was.
C15_Witness ==
    /\ pc = "aborted" /\ exit = "type_error"
    /\ disk.kind = "malformed"
    /\ idx = 1 /\ log = <<>> /\ writes = 0

\* C16: the loop takes the entries in the order supplied, the --repo values
\* first and the entries of the config file after them, duplicates kept: the
\* i-th visit is that of the i-th entry, an invocation that has ended has
\* visited as many entries as were supplied, a visit of a repository listed
\* earlier in the same invocation reads the record its previous visit wrote,
\* and the record persisted for a repository is the one its last visit wrote.
Supplied == input.cli \o input.file.repos

C16_VisitedInOrder ==
    /\ pc = "loop" => repos = Supplied
    /\ JustVisited =>
         /\ last.idx = Len(log)
         /\ last.repo = Supplied[last.idx]
         /\ \A i \in 1..(last.idx - 1) :
              (/\ Supplied[i] = last.repo
               /\ \A j \in (i + 1)..(last.idx - 1) : Supplied[j] # last.repo) =>
                 last.pre.lastCheckedAt = Some(clock - (last.idx - i))
    /\ (pc = "idle" /\ exit = "done") =>
         /\ Len(log) = Len(Supplied)
         /\ JustVisited =>
              (last.idx = Len(Supplied) /\ disk.repos[last.repo] = Post)

\* C16 witness: one repository is given on the command line and again in the
\* config file; it was visited twice, notified by the first visit and
\* unchanged for the second, whose record is the one written.
C16_Witness ==
    /\ pc = "idle" /\ exit = "done"
    /\ input.cli = <<"acme/app">>
    /\ input.file = FileWith(<<"acme/app">>)
    /\ log = <<"notified", "unchanged">>
    /\ last.pre.lastCheckedAt = Some(clock - 1)
    /\ disk.repos["acme/app"].lastCheckedAt = Some(clock)
    /\ disk.repos["acme/app"].lastReleaseId # Absent

\* C17: a configuration error aborts the run before any fetch, any
\* notification and any write of the state document.  A configuration is in
\* error when the recipient or the sender is missing, when an optional
\* variable of the environment is set to a value its guard refuses, when the
\* config file cannot be read, is not JSON or has no `repos` array, or when
\* an entry anywhere in the list has a missing or empty owner or name.  (a) Every
\* such configuration is rejected; (b) an invocation that is in its loop has
\* none of these errors; (c) the step that rejects issues no fetch (the clock
\* is not read, no status line), delivers no mail and leaves the document.
MalformedIds == {"octo", "/app", "acme/"}

ConfigError(in) ==
    \/ ~in.env.mailTo
    \/ ~in.env.mailFrom
    \/ ~in.env.githubToken \/ ~in.env.resendApiKey
    \/ ~in.env.smtpHost \/ ~in.env.smtpPort
    \/ in.file \in BadFiles
    \/ \E i \in 1..Len(in.cli) : in.cli[i] \in MalformedIds
    \/ \E i \in 1..Len(in.file.repos) : in.file.repos[i] \in MalformedIds

ConfigExits == {"usage", "env", "config_file", "repo_id"}

C17_BadConfigRejected ==
    \A in \in ConfigInputs : ConfigError(in) => Prelude(in).exit \in ConfigExits

C17_LoopHasGoodConfig == pc = "loop" => ~ConfigError(input)

C17_RejectionTouchesNothing ==
    (pc' = "aborted" /\ exit' \in ConfigExits) =>
        /\ pc # "loop"
        /\ UNCHANGED <<disk, clock, lastSent, lastDone, upstream>>
        /\ log' = <<>>
        /\ writes' = 0

C17_ConfigErrorAborts ==
    /\ [](C17_BadConfigRejected /\ C17_LoopHasGoodConfig)
    /\ [][C17_RejectionTouchesNothing]_vars

\* C17 witness: after an invocation that wrote the document, an invocation
\* with a malformed identifier in its list is rejected: the document is the
\* one written before and nothing was visited.
C17_Witness ==
    /\ pc = "aborted" /\ exit = "repo_id"
    /\ runs = 1 /\ disk.kind = "doc"
    /\ disk.repos # EmptyRepos
    /\ log = <<>> /\ writes = 0

\* C18: per-repository errors neither end the run nor count.  `changed`, the
\* number the summary reports, is at every moment the number of status lines
\* printed so far that read notified or would-notify; every visit, failed or
\* not, moves the loop on by one entry; and a run whose state.repos takes
\* assignments leaves its loop only after one status line per entry, with
\* the count as it stood, and ends normally unless the write of the state
\* document itself fails.  (The runs ended inside the loop by the TypeError
\* of a document whose `repos` is no object are C15's.)
CountNotified(lines) ==
    Cardinality({i \in 1..Len(lines) : lines[i] \in {"notified", "would_notify"}})

C18_CountIsNotified ==
    reposKind # "primitive" =>
        /\ changed = CountNotified(log)
        /\ pc = "loop" => idx = Len(log) + 1

C18_LoopEndsNormally ==
    (pc = "loop" /\ pc' # "loop" /\ reposKind \in {"object", "array"}) =>
        /\ \/ pc' = "idle" /\ exit' = "done"
           \/ pc' = "aborted" /\ exit' = "write_error"
        /\ Len(log) = Len(repos)
        /\ log' = log
        /\ changed' = changed

C18_FullPassAndCount ==
    /\ []C18_CountIsNotified
    /\ [][C18_LoopEndsNormally]_vars

\* C18 witness: an invocation has ended normally after a visit that
\* notified and a visit whose send failed; the summary count is 1.
C18_Witness ==
    /\ pc = "idle" /\ exit = "done"
    /\ log = <<"notified", "error">>
    /\ last.attempted /\ SendFailed
    /\ changed = 1

\* C19: a visit of a repository whose stored record has no last-notified
\* release, when its fetch returns a release, makes one notification attempt:
\* it is attempted (never skipped), by one call of sendEmail or the dry-run
\* line, and reported in one status line; a failed send is not repeated (the
\* visit ends as an error with the record still without a release).  When
\* the attempt completes, id, tag and publication time of the record are all
\* set, to those of the fetched release, and so are they in the document the
\* invocation writes from a keyed collection.
FirstRelease == JustVisited /\ Found /\ last.pre.lastReleaseId = Absent

C19_FirstReleaseNotifiedOnce ==
    FirstRelease =>
        /\ Triple(last.pre) = NoTriple
        /\ last.attempted
        /\ dry <=> last.provider = "unused"
        /\ Len(log) = last.idx
        /\ (dry \/ SendSucceeded) =>
             /\ last.outcome \in {"notified", "would_notify"}
             /\ changed = last.changedBefore + 1
             /\ Triple(Post) = TripleOf(last.result.release)
             /\ \A k \in 1..3 : Triple(Post)[k] # Absent
             /\ (pc = "idle" /\ exit = "done" /\ reposKind = "object") =>
                  Triple(disk.repos[last.repo]) = TripleOf(last.result.release)
        /\ (~dry /\ SendFailed) =>
             /\ last.outcome = "error"
             /\ changed = last.changedBefore
             /\ Triple(Post) = NoTriple

\* C19 witness: the first release fetched for a repository was mailed, the
\* invocation has ended and the written record holds id, tag and publication
\* time of that release.
C19_Witness ==
    /\ FirstRelease /\ ~dry /\ ~force
    /\ last.delivered
    /\ pc = "idle" /\ exit = "done" /\ disk.kind = "doc"
    /\ disk.repos[last.repo].lastReleaseId = Some(last.result.release.id)
    /\ disk.repos[last.repo].lastTag = Some(last.result.release.tag_name)
    /\ disk.repos[last.repo].lastPublishedAt =
         Some(last.result.release.published_at)

\* C20: a visit changes the entry of the repository it visits and nothing
\* else of the collection.  (a) In a step that visits a repository every
\* other entry stays as it is and in place, and the document is not
\* written; (b) while the loop runs, the entry of every repository not yet
\* visited is the one loaded from the document; (c) the step that ends the
\* invocation by writing a keyed collection writes every entry as it is in
\* memory, so the loaded entries of repositories that are not in the list
\* are in the new document as they were in the old one.
Listed == {repos[i] : i \in 1..Len(repos)}
VisitedSoFar == {repos[i] : i \in 1..Len(log)}

C20_VisitFrame ==
    (pc = "loop" /\ log' # log) =>
        /\ DOMAIN state' \in {DOMAIN state, DOMAIN state \cup {repos[idx]}}
        /\ pc' = "loop" => repos[idx] \in DOMAIN state'
        /\ \A r \in DOMAIN state \ {repos[idx]} : state'[r] = state[r]
        /\ disk' = disk

C20_UnvisitedAsLoaded ==
    (pc = "loop" /\ disk.kind = "doc") =>
        \A r \in DOMAIN disk.repos \ VisitedSoFar :
            r \in DOMAIN state /\ state[r] = disk.repos[r]

C20_WriteFrame ==
    (pc = "loop" /\ pc' = "idle" /\ reposKind = "object") =>
        /\ disk'.kind = "doc"
        /\ DOMAIN disk'.repos = DOMAIN state
        /\ \A r \in DOMAIN state : disk'.repos[r] = state[r]
        /\ disk.kind = "doc" =>
             \A r \in DOMAIN disk.repos \ Listed :
                 r \in DOMAIN disk'.repos /\ disk'.repos[r] = disk.repos[r]

C20_OnlyOwnEntry ==
    /\ []C20_UnvisitedAsLoaded
    /\ [][C20_VisitFrame /\ C20_WriteFrame]_vars

\* C20 witness: a second invocation that lists acme/app alone has ended; the
\* record of octo/demo, notified by the first invocation, is in the document
\* as the first invocation wrote it, next to the new record of acme/app.
C20_Witness ==
    /\ pc = "idle" /\ exit = "done" /\ runs = 2
    /\ repos = <<"acme/app">>
    /\ DOMAIN disk.repos = {"octo/demo", "acme/app"}
    /\ disk.repos["octo/demo"].lastReleaseId # Absent
    /\ disk.repos["octo/demo"].lastCheckedAt = Some(clock - 1)
    /\ disk.repos["acme/app"].lastCheckedAt = Some(clock)

\* The stored records: those in memory while an invocation runs and those of
\* the state document on disk.
StoredRecords ==
    {<<r, state[r]>> : r \in DOMAIN state}
    \cup {<<r, disk.repos[r]>> : r \in DOMAIN disk.repos}

\* The upstream change whose entity tag a validator is, if any.
VersionsOf(etag) == {n \in 1..Len(versions) : etag = Some(EntityTag(n))}

\* The release source had, for that repository and under that version, a
\* release with the stored last-notified id and tag.
ValidatesStored(r, rs, n) ==
    /\ versions[n].repo = r
    /\ versions[n].up.has
    /\ rs.lastReleaseId = Some(versions[n].up.release.id)
    /\ rs.lastTag = Some(versions[n].up.release.tag_name)

\* C21: starting from an empty state, in every reachable state a stored
\* validator, when present, is the entity tag the release source gave to a
\* version of that repository whose release has exactly the stored
\* last-notified id and tag (a validator enters a record only from the reply
\* of a fetch); hence whenever the source answers not-modified to the stored
\* validator, the release it publishes is the one recorded as notified, so
\* no release that is not yet recorded is skipped.
C21_ValidatorOfNotified ==
    /\ \A p \in StoredRecords :
         p[2].etag # Absent =>
            \E n \in VersionsOf(p[2].etag) : ValidatesStored(p[1], p[2], n)
    /\ (JustVisited /\ last.resp.status = 304) =>
          /\ last.up.has
          /\ last.pre.lastReleaseId = Some(last.up.release.id)
          /\ last.pre.lastTag = Some(last.up.release.tag_name)
          /\ Triple(Post) = Triple(last.pre)

\* C21 witness: a send failed for a release published after the one the
\* stored validator belongs to, and the record still holds the older
\* validator with the older id and tag.
C21_Witness ==
    /\ JustVisited /\ Found /\ last.attempted /\ ~dry /\ SendFailed
    /\ Post.etag # Absent
    /\ last.resp.etag # Absent /\ last.resp.etag # Post.etag
    /\ ~SameId
    /\ \E n \in VersionsOf(Post.etag) : ValidatesStored(last.repo, Post, n)

\* The visit is the first to get a reply from the release source after a
\* visit of the same repository that ended in a send error, and the source
\* still publishes the release whose notification failed.
AfterSendError ==
    /\ JustVisited
    /\ last.prevFailed # Absent
    /\ ~FetchFailed
    /\ last.up.has
    /\ last.prevFailed[1].release
         = <<last.up.release.id, last.up.release.tag_name>>

\* The release whose notification failed was not the one recorded as last
\* notified (it was judged new by its id or tag, not by --force alone).
FailedUnrecorded ==
    last.prevFailed[1].stored
        # <<Some(last.prevFailed[1].release[1]),
            Some(last.prevFailed[1].release[2])>>

\* The visit fetched the release, judged it new and called sendEmail.
Retried ==
    /\ Found /\ JudgedNew /\ last.attempted
    /\ last.outcome \in {"notified", "error"}
    /\ last.provider \in Providers

\* C22 as claimed: after a visit that ended in a send error for release R,
\* the next non-dry visit of the repository that fetches successfully while
\* the source still publishes R judges R new again and attempts its
\* notification.
C22_FailedSendRetried ==
    (AfterSendError /\ ~dry) => Retried

\* C22, amended: the same for a release R that is not the one recorded as
\* last notified, or when the next run passes --force.  The failed visit
\* left the notified fields as they were; the next visit that gets a reply
\* while R is still published fetches R (never 304), judges it new, and
\* calls sendEmail if it is not a dry-run; a dry-run reports it and records
\* it as notified.
C22_UnrecordedFailureRetried ==
    (AfterSendError /\ (FailedUnrecorded \/ force)) =>
        /\ FailedUnrecorded =>
              <<last.pre.lastReleaseId, last.pre.lastTag>>
                  = last.prevFailed[1].stored
        /\ Found /\ JudgedNew /\ last.attempted
        /\ ~dry => Retried
        /\ dry => /\ last.outcome = "would_notify"
                  /\ Triple(Post) = TripleOf(last.result.release)

\* C22 witness: the mail of a release went out at the retry, without --force,
\* after its first notification failed; the repository had another release
\* recorded as notified.
C22_Witness ==
    /\ AfterSendError /\ FailedUnrecorded /\ ~force /\ ~dry
    /\ last.prevFailed[1].stored[1] # Absent
    /\ last.delivered
    /\ lastSent[last.repo] = Some(last.prevFailed[1].release)

\* The visits of the invocation so far that ended with a notification (a
\* mail sent, or the dry-run report) for the repository.
NotifiedVisits(r) ==
    {i \in 1..Len(log) : repos[i] = r /\ log[i] \in {"notified", "would_notify"}}

\* The most recent visit is not the first of its repository in this
\* invocation, and the one before it ended in the given way.
EarlierVisits == {j \in 1..(last.idx - 1) : repos[j] = last.repo}
LatestEarlier == CHOOSE j \in EarlierVisits : \A k \in EarlierVisits : k <= j
RevisitedAfter(outcomes) ==
    /\ JustVisited
    /\ EarlierVisits # {}
    /\ log[LatestEarlier] \in outcomes

\* C23: within one run without --force and with a release source that does
\* not change during the run, a repository listed more than once is notified
\* at most once: a visit that follows one that notified (or found nothing to
\* notify) reads the record that visit left, which names the release the
\* source publishes, and unless its fetch fails it ends as unchanged or
\* already-tracked with nothing attempted; with --force every visit that
\* fetches a release runs the notification step, calling sendEmail unless
\* the run is a dry-run.
C23_DuplicateNotifiedOnce ==
    /\ ~force => \A r \in RepoKeys : Cardinality(NotifiedVisits(r)) <= 1
    /\ (~force /\ ~FetchFailed
          /\ RevisitedAfter({"notified", "would_notify", "unchanged",
                             "already_tracked"})) =>
          /\ last.outcome \in {"unchanged", "already_tracked"}
          /\ ~last.attempted
          /\ last.pre.lastReleaseId = Some(last.up.release.id)
          /\ last.pre.lastTag = Some(last.up.release.tag_name)
    /\ (~force /\ RevisitedAfter({"notified", "would_notify"})) =>
          /\ last.prevDone = Some(<<last.up.release.id, last.up.release.tag_name>>)
          /\ last.pre.lastCheckedAt = Some(clock - 1)
    /\ (JustVisited /\ force /\ Found) =>
          /\ last.attempted
          /\ ~dry => last.provider \in Providers
          /\ (~dry /\ SendSucceeded) => last.delivered

\* C23 witness: a run without --force lists octo/demo twice; the first visit
\* mailed the release, the second found it already tracked.
C23_Witness ==
    /\ ~force /\ ~dry /\ Len(repos) = 2 /\ repos[1] = repos[2]
    /\ RevisitedAfter({"notified"})
    /\ last.outcome = "already_tracked"
    /\ Cardinality(NotifiedVisits(last.repo)) = 1

====
